---- MODULE Spec2Model ----
(***************************************************************************)
(* Maintenance tickets: the service (src/service.py) and the routes       *)
(* (src/router.py) over the tables maintenance_tickets and                *)
(* maintenance_ticket_assignees, the id sequence, the users/roles tables   *)
(* and the database clock.  One action per request handler; a handler's    *)
(* database calls are numbered 1, 2, ... in the order the code issues      *)
(* them and failAt names the call that raises (0: none does).              *)
(* Columns that no handler reads back (updated_at, priority, client_id,    *)
(* requester_name, requester_phone, request_content) are not kept.         *)
(* files is the disk under and around the upload root; txs holds a         *)
(* complete and a delete that run statement by statement, each in its own  *)
(* transaction.                                                            *)
(***************************************************************************)
EXTENDS Integers, Sequences, FiniteSets, TLC

\* ------------------------------------------------------------------ bounds
MaxCreates == 2
MaxClock == 1
TicksPerYear == 1
MaxAssignees == 2
BaseYear == 2026
BigSeqStart == 999998

\* --------------------------------------------------------- program constants
PadWidth == 6

\* A nullable column holds None (SQL NULL) or Some(v).
None == <<>>
Some(v) == <<v>>
Users == {1, 2}
\* Caller 3 is authenticated and has no row in users joined to roles.
Callers == {1, 2, 3}
RoleCodes == {"ADMIN", "admin", "USER"}

VARIABLES tickets, assignees, seq, now, roles, files, txs, last

vars == <<tickets, assignees, seq, now, roles, files, txs, last>>

\* ------------------------------------------------------------------ strings
\* A string is a sequence of one-character strings.
IsSpace(c) == c = " "

RECURSIVE LStrip(_)
LStrip(s) == IF s # <<>> /\ IsSpace(Head(s)) THEN LStrip(Tail(s)) ELSE s

RECURSIVE RStrip(_)
RStrip(s) ==
  IF s # <<>> /\ IsSpace(s[Len(s)]) THEN RStrip(SubSeq(s, 1, Len(s) - 1)) ELSE s

\* No trimming at all.
NoStrip(s) == s

Strip(s) == RStrip(LStrip(s))

LowerChar(c) ==
  CASE c = "A" -> "a" [] c = "B" -> "b" [] c = "D" -> "d" [] c = "F" -> "f"
    [] c = "N" -> "n" [] c = "P" -> "p" [] OTHER -> c

Lower(s) == [i \in 1..Len(s) |-> LowerChar(s[i])]

\* s ILIKE '%sub%'
ILike(s, sub) ==
  \E i \in 1..(Len(s) - Len(sub) + 1) :
    SubSeq(Lower(s), i, i + Len(sub) - 1) = Lower(sub)

Range(s) == {s[i] : i \in 1..Len(s)}

\* ---------------------------------------------------------------- ticket_no
RECURSIVE Digits(_)
Digits(n) == IF n < 10 THEN <<n>> ELSE Append(Digits(n \div 10), n % 10)

RECURSIVE Zeros(_)
Zeros(k) == IF k <= 0 THEN <<>> ELSE <<0>> \o Zeros(k - 1)

\* lpad(s, w, '0'): pads on the left, and cuts s to its first w characters
\* when it is longer than w.
Lpad(s, w) == IF Len(s) >= w THEN SubSeq(s, 1, w) ELSE Zeros(w - Len(s)) \o s

YearKST(t) == BaseYear + (t \div TicksPerYear)

TicketNo(id, t) == [year |-> YearKST(t), digits |-> Lpad(Digits(id), PadWidth)]

\* ------------------------------------------------------------------ inputs
Str(n) == CASE n = 0 -> <<>>
            [] n = 1 -> <<" ", " ">>
            [] n = 2 -> <<" ", "f", "a", "n", " ">>
            [] n = 3 -> <<"o", "k">>
            [] n = 4 -> <<"r", "e", "d", "o", " ">>
            [] n = 5 -> <<"I", "T">>
            [] n = 6 -> <<"x">>

\* users.name of the rows of public.users
UserName(u) == IF u = 1 THEN <<"A", "n">> ELSE <<"B", "o">>

\* MaintenanceCreateIn payloads (title, requester_org, request_content)
CreatePayloads ==
  { [title |-> Str(2), requester_org |-> Str(5), request_content |-> Str(6)],
    [title |-> Str(1), requester_org |-> Str(5), request_content |-> Str(6)],
    [title |-> Str(2), requester_org |-> Str(5), request_content |-> Str(1)],
    [title |-> Str(0), requester_org |-> Str(5), request_content |-> Str(6)] }

\* resolution_content of MaintenanceCompleteIn: empty, blank, and text to be trimmed
Resolutions == {Str(0), Str(1), Str(4)}

\* the q of a list request: absent, blank, matching a title and a name, matching a
\* name alone
Searches == {None, Some(Str(1)), Some(<<"A", "N">>), Some(<<"b">>)}

\* uploads: a file name, its content type and its size in bytes
MaxBytes == 20 * 1024 * 1024
AllowedExts == {<<".", "z", "i", "p">>, <<".", "p", "d", "f">>,
                <<".", "p", "n", "g">>, <<".", "j", "p", "g">>}
FileNames == {<<"a", "/", "b", ".", "P", "D", "F">>, <<"x", ".", "s", "h">>, <<"f">>}
FileSizes == {MaxBytes, MaxBytes + 1}

RECURSIVE SeqsUpTo(_, _)
SeqsUpTo(S, n) ==
  IF n = 0 THEN {<<>>}
  ELSE SeqsUpTo(S, n - 1) \cup
       {Append(s, x) : s \in {t \in SeqsUpTo(S, n - 1) : Len(t) = n - 1}, x \in S}

AssigneeLists == SeqsUpTo(Users, MaxAssignees)

\* the assignee lists of the specifications that are not about completion
FewLists == {<<1>>, <<2, 1>>}

\* ------------------------------------------------------------- the session
\* The tables a transaction works on.
DB(tk, asg) == [tickets |-> tk, assignees |-> asg]

\* db.commit(): the session's writes become the committed tables.
Commit(committed, working) == working

\* A rollback that leaves the statements already executed in place.
RollbackKeepsWrites(committed, working) == working

\* db.rollback(): the session's writes are discarded.
Rollback(committed, working) == committed

\* The committed tables after a handler whose call failAt raised (0: none).
EndTx(committed, working, failAt) ==
  IF failAt = 0 THEN Commit(committed, working) ELSE Rollback(committed, working)

\* ------------------------------------------------------------------ schemas
\* Field(..., min_length=1) of MaintenanceCreateIn / MaintenanceCompleteIn
MinLength1(s) == Len(s) >= 1

CreateInValid(p) ==
  MinLength1(p.title) /\ MinLength1(p.requester_org) /\ MinLength1(p.request_content)

CompleteInValid(res, uids) == MinLength1(res)

\* -------------------------------------------------------------------- rows
\* An existence check that any id passes.
TicketExistsAlways(tk, id) == TRUE

TicketExists(tk, id) == id \in DOMAIN tk

AssigneesOf(asg, id) == {asg[i].user_id : i \in {j \in 1..Len(asg) : asg[j].ticket_id = id}}

NewTicket(id, t, p, uid) ==
  [ticket_no |-> TicketNo(id, t),
   title |-> Strip(p.title),
   requester_org |-> Strip(p.requester_org),
   status |-> "OPEN",
   requested_at |-> t,
   closed_at |-> None,
   resolution_content |-> None,
   created_by_user_id |-> uid,
   attachment |-> None]

\* ticket_no is UNIQUE: the INSERT raises when another row carries it.
TicketNoTaken(tk, no) == \E i \in DOMAIN tk : tk[i].ticket_no = no

InsertTicket(tk, id, row) == [i \in DOMAIN tk \cup {id} |-> IF i = id THEN row ELSE tk[i]]

\* An UPDATE that closes the ticket and leaves closed_at as it was.
UpdateClosedNoTimestamp(tk, id, res, t) ==
  [i \in DOMAIN tk |->
     IF i = id
     THEN [tk[i] EXCEPT !.status = "CLOSED", !.resolution_content = Some(res)]
     ELSE tk[i]]

\* An UPDATE with AND status <> 'CLOSED' in its WHERE clause.
UpdateClosedOnce(tk, id, res, t) ==
  [i \in DOMAIN tk |->
     IF i = id /\ tk[i].status # "CLOSED"
     THEN [tk[i] EXCEPT !.status = "CLOSED", !.closed_at = Some(t),
                        !.resolution_content = Some(res)]
     ELSE tk[i]]

\* UPDATE ... SET status='CLOSED', closed_at=now(), resolution_content=:res WHERE id=:id
UpdateClosed(tk, id, res, t) ==
  [i \in DOMAIN tk |->
     IF i = id
     THEN [tk[i] EXCEPT !.status = "CLOSED", !.closed_at = Some(t),
                        !.resolution_content = Some(res)]
     ELSE tk[i]]

\* An INSERT without its ON CONFLICT clause, on a table without the unique index.
InsertAssigneeAlways(asg, id, uid) == Append(asg, [ticket_id |-> id, user_id |-> uid])

\* INSERT ... VALUES (:ticket_id, :user_id) ON CONFLICT (ticket_id, user_id) DO NOTHING
InsertAssignee(asg, id, uid) ==
  IF \E i \in 1..Len(asg) : asg[i].ticket_id = id /\ asg[i].user_id = uid
  THEN asg
  ELSE Append(asg, [ticket_id |-> id, user_id |-> uid])

RECURSIVE InsertAssignees(_, _, _, _)
\* the first n passes of the loop over payload.assignee_user_ids
InsertAssignees(asg, id, uids, n) ==
  IF n = 0 THEN asg
  ELSE InsertAssignee(InsertAssignees(asg, id, uids, n - 1), id, uids[n])

\* UPDATE ... SET attachment_name=..., attachment_path=..., ... WHERE id=:id
UpdateAttachment(tk, id, att) ==
  [i \in DOMAIN tk |-> IF i = id THEN [tk[i] EXCEPT !.attachment = Some(att)] ELSE tk[i]]

\* A delete that leaves the assignee rows.
DeleteAssigneesNone(asg, id) == asg

\* DELETE FROM maintenance_ticket_assignees WHERE ticket_id = :id
DeleteAssignees(asg, id) == SelectSeq(asg, LAMBDA r : r.ticket_id # id)

\* DELETE FROM maintenance_tickets WHERE id = :id
DeleteTicket(tk, id) == [i \in DOMAIN tk \ {id} |-> tk[i]]

\* Result.rowcount of that DELETE
DeleteRowcount(tk, id) == IF id \in DOMAIN tk THEN 1 ELSE 0

\* ------------------------------------------------------------- transactions
\* A complete and a delete in flight, each in its own session and transaction.
\* c: the complete: the statement it is at, its arguments, the loop index k, the
\* transaction's now(), whether its UPDATE holds the ticket's row lock, the user
\* ids whose rows it has inserted and not yet committed.
\* d: the delete: the statement it is at, its ticket id, the user ids of the
\* assignee rows it has deleted and not yet committed, whether it has deleted the
\* ticket row, the ticket DELETE's rowcount.
IdleC == [pc |-> "idle", id |-> 0, res |-> <<>>, uids |-> <<>>, k |-> 0, t |-> 0,
          locked |-> FALSE, ins |-> <<>>]
IdleD == [pc |-> "idle", id |-> 0, saw |-> {}, delT |-> FALSE, rowcount |-> 0]
IdleTxs == [c |-> IdleC, d |-> IdleD]

\* ----------------------------------------------------------------- outcomes
\* The last request and what its caller saw: the handler, the request's ticket id
\* (list: the year), caller, text (complete: resolution_content, upload: the file
\* name, list: q), assignee_user_ids and tab; the call that raised (0: none; reads: how
\* many queries raised); the outcome; the status the named ticket had when the
\* request came in ("NONE": no such row); the rows a read returned.
Last(op, id, caller, text, uids, failAt, result, was) ==
  [op |-> op, id |-> id, caller |-> caller, text |-> text, uids |-> uids, tab |-> "",
   failAt |-> failAt, result |-> result, was |-> was, rows |-> <<>>]

Was(tk, id) == IF id \in DOMAIN tk THEN tk[id].status ELSE "NONE"

Min(a, b) == IF a < b THEN a ELSE b
Max(a, b) == IF a > b THEN a ELSE b

\* The ids a request may name: every ticket there is, and one id without a row.
TicketIds == DOMAIN tickets \cup {seq + 1}

SeqLimit == IF seq < BigSeqStart THEN MaxCreates ELSE BigSeqStart + MaxCreates

\* ------------------------------------------------------------------- create
\* MaintenanceService.create.  Calls: 1 the INSERT (which draws nextval), 2 commit.
\* drew: whether a failing INSERT had drawn its sequence value before it raised (a
\* sequence does not roll back); it says nothing when the INSERT does not fail.
\* A clients table without rows makes the INSERT raise (client_id NOT NULL): one of
\* the failures of call 1.
Create(caller, p, failAt, drew) ==
  LET id == seq + 1
      row == NewTicket(id, now, p, caller)
      unique == ~TicketNoTaken(tickets, row.ticket_no)
      raisedAt == IF failAt = 0 /\ ~unique THEN 1 ELSE failAt
      working == DB(IF raisedAt = 1 THEN tickets ELSE InsertTicket(tickets, id, row),
                    assignees)
      final == EndTx(DB(tickets, assignees), working, raisedAt)
  IN
  /\ seq < SeqLimit
  /\ drew => failAt = 1
  /\ IF ~CreateInValid(p) \/ Strip(p.title) = <<>> \/ Strip(p.request_content) = <<>>
     THEN /\ failAt = 0
          /\ UNCHANGED <<tickets, assignees, seq>>
          /\ last' = Last("create", 0, caller, <<>>, <<>>, 0, "validation_error", "NONE")
     ELSE /\ seq' = IF failAt = 1 /\ ~drew THEN seq ELSE id
          /\ tickets' = final.tickets
          /\ assignees' = final.assignees
          /\ last' = Last("create", id, caller, <<>>, <<>>, raisedAt,
                          IF raisedAt # 0 THEN "error" ELSE "ok", "NONE")
  /\ UNCHANGED <<now, roles, files, txs>>

\* ----------------------------------------------------------------- complete
\* The session's tables after the first k calls of complete succeeded.
\* Calls: 1 the SELECT, 2 the UPDATE, 3 .. 2+n the INSERTs, 3+n commit.
CompleteWorking(db, id, res, uids, t, k) ==
  DB(IF k >= 2 THEN UpdateClosed(db.tickets, id, res, t) ELSE db.tickets,
     InsertAssignees(db.assignees, id, uids, Min(Max(k - 2, 0), Len(uids))))

\* MaintenanceService.complete, reached through complete_maintenance.
Complete(id, raw, uids, failAt) ==
  LET res == Strip(raw)
      db == DB(tickets, assignees)
      calls == Len(uids) + 3
      done == IF failAt = 0 THEN calls - 1 ELSE failAt - 1
      final == EndTx(db, CompleteWorking(db, id, res, uids, now, done), failAt)
  IN
  /\ IF ~CompleteInValid(raw, uids) \/ res = <<>> \/ uids = <<>>
     THEN /\ failAt = 0
          /\ UNCHANGED <<tickets, assignees>>
          /\ last' = Last("complete", id, 0, raw, uids, 0, "validation_error", Was(tickets, id))
     ELSE IF failAt # 1 /\ ~TicketExists(tickets, id)
     THEN /\ failAt = 0
          /\ UNCHANGED <<tickets, assignees>>
          /\ last' = Last("complete", id, 0, raw, uids, 0, "not_found", Was(tickets, id))
     ELSE /\ failAt <= calls
          /\ tickets' = final.tickets
          /\ assignees' = final.assignees
          /\ last' = Last("complete", id, 0, raw, uids, failAt,
                          IF failAt # 0 THEN "error" ELSE "ok", Was(tickets, id))
  /\ UNCHANGED <<seq, now, roles, files, txs>>

\* ------------------------------------------------------------------- delete
\* A role check that ignores case.
EnsureAdminAnyCase(rl, caller) == caller \in DOMAIN rl /\ rl[caller] \in {"ADMIN", "admin"}

\* _ensure_admin: the caller's role code, read from users joined to roles.
EnsureAdmin(rl, caller) == caller \in DOMAIN rl /\ rl[caller] = "ADMIN"

\* The session's tables after the first k calls of delete_maintenance succeeded.
\* Calls: 1 the role SELECT, 2 DELETE of the assignees, 3 DELETE of the ticket,
\* 4 commit.
DeleteWorking(db, id, k) ==
  DB(IF k >= 3 THEN DeleteTicket(db.tickets, id) ELSE db.tickets,
     IF k >= 2 THEN DeleteAssignees(db.assignees, id) ELSE db.assignees)

\* delete_maintenance
Delete(id, caller, failAt) ==
  LET db == DB(tickets, assignees)
      done == IF failAt = 0 THEN 3 ELSE failAt - 1
      final == EndTx(db, DeleteWorking(db, id, done), failAt)
  IN
  /\ failAt <= 4
  /\ IF failAt = 1
     THEN /\ UNCHANGED <<tickets, assignees>>
          /\ last' = Last("delete", id, caller, <<>>, <<>>, 1, "error", Was(tickets, id))
     ELSE IF ~EnsureAdmin(roles, caller)
     THEN /\ failAt = 0
          /\ UNCHANGED <<tickets, assignees>>
          /\ last' = Last("delete", id, caller, <<>>, <<>>, 0, "forbidden", Was(tickets, id))
     ELSE /\ tickets' = final.tickets
          /\ assignees' = final.assignees
          /\ last' = Last("delete", id, caller, <<>>, <<>>, failAt,
                          IF failAt # 0 THEN "error"
                          ELSE IF DeleteRowcount(tickets, id) = 0 THEN "not_found"
                          ELSE "ok",
                          Was(tickets, id))
  /\ UNCHANGED <<seq, now, roles, files, txs>>

\* -------------------------------------------------------------------- paths
\* A path as text is a sequence of characters; parsed, it is a sequence of
\* components.  The disk: files holds the resolved paths of the regular files.
UploadsName == <<"u", "p", "l", "o", "a", "d", "s">>
MaintenanceName == <<"m", "a", "i", "n", "t", "e", "n", "a", "n", "c", "e">>

\* Path(__file__).resolve().parents[2], where the application is installed; the
\* process runs with it as its working directory
AppRoot == <<<<"s", "r", "v">>>>
Cwd == AppRoot

\* a directory outside the application, and a symbolic link to it that lies under
\* the upload root
EtcDir == <<<<"e", "t", "c">>>>
LinkPath == AppRoot \o <<UploadsName, <<"l", "n">>>>
SymlinkTarget(p) == IF p = LinkPath THEN Some(EtcDir) ELSE None

DigitChar(d) == <<"0", "1", "2", "3", "4", "5", "6", "7", "8", "9">>[d + 1]
\* str(ticket_id)
IntStr(n) == [i \in 1..Len(Digits(n)) |-> DigitChar(Digits(n)[i])]

RECURSIVE PathStr(_)
\* str() of an absolute path
PathStr(parts) == IF parts = <<>> THEN <<>> ELSE <<"/">> \o Head(parts) \o PathStr(Tail(parts))

RECURSIVE Split(_)
\* raw.split("/")
Split(s) ==
  IF s = <<>> THEN <<<<>>>>
  ELSE LET r == Split(Tail(s))
       IN IF Head(s) = "/" THEN <<<<>>>> \o r ELSE <<<<Head(s)>> \o Head(r)>> \o Tail(r)

IsAbsolute(raw) == raw # <<>> /\ Head(raw) = "/"

RECURSIVE RealPath(_, _)
\* Walks the components left to right from the resolved directory cur: empty and "."
\* components are dropped, ".." steps to the parent (the root is its own parent), a
\* symbolic link is replaced by its target.
RealPath(cur, rest) ==
  IF rest = <<>> THEN cur
  ELSE LET c == Head(rest)
           new == Append(cur, c)
       IN IF c = <<>> \/ c = <<".">> THEN RealPath(cur, Tail(rest))
          ELSE IF c = <<".", ".">>
          THEN RealPath(IF cur = <<>> THEN cur ELSE SubSeq(cur, 1, Len(cur) - 1), Tail(rest))
          ELSE IF SymlinkTarget(new) # None
          THEN RealPath(SymlinkTarget(new)[1], Tail(rest))
          ELSE RealPath(new, Tail(rest))

\* Path(raw).resolve(): a relative path starts at the working directory
Resolve(raw) == RealPath(IF IsAbsolute(raw) THEN <<>> ELSE Cwd, Split(raw))

\* (Path(__file__).resolve().parents[2] / "uploads").resolve()
UploadsRoot == RealPath(<<>>, AppRoot \o <<UploadsName>>)

\* A check that lets every path through.
RelativeToAnywhere(p, root) == TRUE

\* p.relative_to(root) does not raise: root's components are the first of p's
RelativeTo(p, root) == Len(p) >= Len(root) /\ SubSeq(p, 1, Len(root)) = root

IsFile(fs, p) == p \in fs
\* the directories: those above a file, and the upload root and those above it
IsDir(fs, p) ==
  \/ \E f \in fs : Len(f) > Len(p) /\ SubSeq(f, 1, Len(p)) = p
  \/ Len(UploadsRoot) >= Len(p) /\ SubSeq(UploadsRoot, 1, Len(p)) = p
  \/ p = EtcDir
Exists(fs, p) == IsFile(fs, p) \/ IsDir(fs, p)

\* ------------------------------------------------------------------- upload
RECURSIVE RFind(_, _)
\* filename.rfind(c): the last position of c, 0 when there is none
RFind(s, c) ==
  IF s = <<>> THEN 0 ELSE IF s[Len(s)] = c THEN Len(s) ELSE RFind(SubSeq(s, 1, Len(s) - 1), c)

Ext(filename) ==
  IF RFind(filename, ".") # 0
  THEN Lower(SubSeq(filename, RFind(filename, "."), Len(filename)))
  ELSE <<>>

\* (filename or "file").replace("\\", "_").replace("/", "_").strip() or "file"
SafeName(filename) ==
  LET n == IF filename = <<>> THEN <<"f", "i", "l", "e">> ELSE filename
      r == Strip([i \in 1..Len(n) |-> IF n[i] \in {"\\", "/"} THEN "_" ELSE n[i]])
  IN IF r = <<>> THEN <<"f", "i", "l", "e">> ELSE r

\* str(base_dir / stored_name): <app root>/uploads/maintenance/<ticket_id>/<uuid>_<name>
StoredPath(id, uuid, safe) ==
  PathStr(AppRoot \o <<UploadsName, MaintenanceName, IntStr(id), <<uuid, "_">> \o safe>>)

\* upload_attachment.  The file is written under the upload root, then calls: 1 the
\* UPDATE, 2 commit; a failure is rolled back and swallowed, the file stays written.
Upload(id, filename, size, failAt) ==
  LET db == DB(tickets, assignees)
      safe == SafeName(filename)
      att == [name |-> safe, path |-> StoredPath(id, "u", safe), size |-> size]
      working == DB(IF failAt = 1 THEN tickets ELSE UpdateAttachment(tickets, id, att),
                    assignees)
      final == EndTx(db, working, failAt)
  IN
  /\ failAt <= 2
  /\ IF Ext(filename) \notin AllowedExts \/ size > MaxBytes
     THEN /\ failAt = 0
          /\ UNCHANGED <<tickets, assignees, files>>
          /\ last' = Last("upload", id, 0, filename, <<>>, 0, "bad_request", Was(tickets, id))
     ELSE /\ files' = files \cup {Resolve(att.path)}
          /\ tickets' = final.tickets
          /\ assignees' = final.assignees
          /\ last' = Last("upload", id, 0, filename, <<>>, failAt, "ok", Was(tickets, id))
  /\ UNCHANGED <<seq, now, roles, txs>>

\* ----------------------------------------------------------------- download
\* download_attachment.  Call 1 is the SELECT.  An answer with the file carries the
\* path handed to FileResponse.
Download(id, failAt) ==
  LET L(result) == Last("download", id, 0, <<>>, <<>>, failAt, result, Was(tickets, id))
      has == /\ id \in DOMAIN tickets
             /\ tickets[id].attachment # None
             /\ tickets[id].attachment[1].path # <<>>
      file_path == Resolve(tickets[id].attachment[1].path)
  IN
  /\ failAt <= 1
  /\ last' = IF failAt = 1 THEN L("error")
             ELSE IF ~has THEN L("no_attachment")
             ELSE IF ~RelativeTo(file_path, UploadsRoot) THEN L("bad_path")
             ELSE IF ~Exists(files, file_path) \/ ~IsFile(files, file_path)
             THEN L("not_found")
             ELSE [L("ok") EXCEPT !.rows = <<file_path>>]
  /\ UNCHANGED <<tickets, assignees, seq, now, roles, files, txs>>

\* -------------------------------------------------------------------- reads
\* COALESCE(u.name, '') of the LEFT JOIN on users
NameOf(uid) == IF uid \in Users THEN UserName(uid) ELSE <<>>

\* _normalize_q
NormalizeQ(q) == IF q = None THEN None ELSE IF Strip(q[1]) = <<>> THEN None ELSE Some(Strip(q[1]))

\* _year_range_kst_dt: [Jan 1 of year, Jan 1 of year + 1) on the clock's scale
YearRange(year) ==
  [start |-> (year - BaseYear) * TicksPerYear, end |-> (year + 1 - BaseYear) * TicksPerYear]

Statuses(tab) == IF tab = "completed" THEN {"CLOSED"} ELSE {"OPEN", "IN_PROGRESS", "WAITING"}

\* The WHERE clause of list; joined: whether u.name is there to be searched.
ListWhere(t, year, tab, qn, joined) ==
  /\ t.requested_at >= YearRange(year).start
  /\ t.requested_at < YearRange(year).end
  /\ t.status \in Statuses(tab)
  /\ \/ qn = None
     \/ ILike(t.title, qn[1])
     \/ ILike(t.requester_org, qn[1])
     \/ joined /\ ILike(NameOf(t.created_by_user_id), qn[1])

RECURSIVE OrderDesc(_, _)
\* ORDER BY t.requested_at DESC, t.id DESC
OrderDesc(tk, ids) ==
  IF ids = {} THEN <<>>
  ELSE LET top == CHOOSE i \in ids : \A j \in ids :
                    \/ tk[i].requested_at > tk[j].requested_at
                    \/ tk[i].requested_at = tk[j].requested_at /\ i >= j
       IN <<top>> \o OrderDesc(tk, ids \ {top})

ListItem(tk, id, joined) ==
  [id |-> id, requested_at |-> tk[id].requested_at, title |-> tk[id].title,
   requester_org |-> tk[id].requester_org,
   created_by_name |-> IF joined THEN NameOf(tk[id].created_by_user_id) ELSE <<>>]

\* sql_join (joined) and sql_nojoin of list
ListQuery(tk, year, tab, qn, joined) ==
  LET ids == OrderDesc(tk, {i \in DOMAIN tk : ListWhere(tk[i], year, tab, qn, joined)})
  IN [k \in 1..Len(ids) |-> ListItem(tk, ids[k], joined)]

\* A list without its except branch: the joined query's failure reaches the caller.
ListNoFallback(year, tab, q, raises) ==
  /\ last' = IF raises >= 1
             THEN [Last("list", year, 0, q, <<>>, raises, "error", "NONE") EXCEPT !.tab = tab]
             ELSE [Last("list", year, 0, q, <<>>, raises, "ok", "NONE")
                     EXCEPT !.tab = tab,
                            !.rows = ListQuery(tickets, year, tab, NormalizeQ(q), TRUE)]
  /\ UNCHANGED <<tickets, assignees, seq, now, roles, files, txs>>

\* MaintenanceService.list.  raises: how many of its queries raise, in order (0: none,
\* 1: the joined query, 2: the joined query and the fallback).
List(year, tab, q, raises) ==
  /\ last' = IF raises = 2
             THEN [Last("list", year, 0, q, <<>>, 2, "error", "NONE") EXCEPT !.tab = tab]
             ELSE [Last("list", year, 0, q, <<>>, raises, "ok", "NONE")
                     EXCEPT !.tab = tab,
                            !.rows = ListQuery(tickets, year, tab, NormalizeQ(q), raises = 0)]
  /\ UNCHANGED <<tickets, assignees, seq, now, roles, files, txs>>

\* the assignee rows of a ticket, ORDER BY a.id
AssigneeRows(asg, id, joined) ==
  LET rows == SelectSeq(asg, LAMBDA r : r.ticket_id = id)
  IN [k \in 1..Len(rows) |->
        [user_id |-> rows[k].user_id,
         name |-> IF joined THEN NameOf(rows[k].user_id) ELSE <<>>]]

\* MaintenanceDetailOut as get_detail builds it
Detail(tk, asg, id, joinedT, joinedA) ==
  [id |-> id, title |-> tk[id].title, requested_at |-> tk[id].requested_at,
   closed_at |-> tk[id].closed_at,
   created_by_user_id |-> tk[id].created_by_user_id,
   created_by_name |-> IF joinedT THEN NameOf(tk[id].created_by_user_id) ELSE <<>>,
   requester_org |-> tk[id].requester_org,
   resolution_content |-> tk[id].resolution_content,
   assignees |-> AssigneeRows(asg, id, joinedA),
   attachment_name |-> IF tk[id].attachment = None THEN None
                       ELSE Some(tk[id].attachment[1].name),
   attachment_path |-> None,
   attachment_download |-> tk[id].attachment # None]

\* MaintenanceService.get_detail through get_maintenance_detail.  raisesT, raisesA:
\* how many of the ticket queries and of the assignee queries raise, in order.
GetDetail(id, raisesT, raisesA) ==
  LET L(n, result) == Last("detail", id, 0, <<>>, <<n>>, raisesT, result, Was(tickets, id))
  IN
  /\ IF raisesT = 2
     THEN raisesA = 0 /\ last' = L(0, "error")
     ELSE IF ~TicketExists(tickets, id)
     THEN raisesA = 0 /\ last' = L(0, "not_found")
     ELSE IF raisesA = 2
     THEN last' = L(2, "error")
     ELSE last' = [L(raisesA, "ok")
                     EXCEPT !.rows = <<Detail(tickets, assignees, id, raisesT = 0,
                                              raisesA = 0)>>]
  /\ UNCHANGED <<tickets, assignees, seq, now, roles, files, txs>>

\* ------------------------------------------------- statement by statement
\* complete and delete_maintenance one statement at a time, under the database's
\* default isolation (read committed): a statement reads what is committed when it
\* runs and what its own transaction wrote; a row that another transaction in
\* flight has updated or deleted makes an UPDATE, DELETE or conflicting INSERT of
\* it wait until that transaction ends.

\* the assignee rows the complete's transaction sees
ViewC(asg, c) == InsertAssignees(asg, c.id, c.ins, Len(c.ins))

\* complete up to its try: the two validations
CBegin(id, raw, uids) ==
  /\ txs.c.pc = "idle"
  /\ IF ~CompleteInValid(raw, uids) \/ Strip(raw) = <<>> \/ uids = <<>>
     THEN /\ last' = Last("complete", id, 0, raw, uids, 0, "validation_error", Was(tickets, id))
          /\ UNCHANGED txs
     ELSE /\ txs' = [txs EXCEPT !.c = [IdleC EXCEPT !.pc = "select", !.id = id,
                                                   !.res = Strip(raw), !.uids = uids]]
          /\ last' = Last("begin", id, 0, raw, uids, 0, "ok", Was(tickets, id))
  /\ UNCHANGED <<tickets, assignees, seq, now, roles, files>>

\* SELECT id ... ; if not exists: return None
CSelect ==
  LET c == txs.c IN
  /\ c.pc = "select"
  /\ IF TicketExists(tickets, c.id)
     THEN /\ txs' = [txs EXCEPT !.c.pc = "update", !.c.t = now]
          /\ last' = Last("select", c.id, 0, c.res, c.uids, 0, "ok", Was(tickets, c.id))
     ELSE /\ txs' = [txs EXCEPT !.c = IdleC]
          /\ last' = Last("complete", c.id, 0, c.res, c.uids, 0, "not_found", "NONE")
  /\ UNCHANGED <<tickets, assignees, seq, now, roles, files>>

\* UPDATE ... WHERE id=:id; its rowcount is not looked at.  It waits while the
\* delete holds the row; it locks the row it updates.
CUpdate ==
  LET c == txs.c IN
  /\ c.pc = "update"
  /\ ~(txs.d.delT /\ txs.d.id = c.id)
  /\ txs' = [txs EXCEPT !.c.pc = "insert", !.c.k = 1,
                        !.c.locked = TicketExists(tickets, c.id)]
  /\ last' = Last("update", c.id, 0, c.res, c.uids, 0, "ok", Was(tickets, c.id))
  /\ UNCHANGED <<tickets, assignees, seq, now, roles, files>>

\* One pass of the loop: INSERT ... ON CONFLICT (ticket_id, user_id) DO NOTHING.
\* It waits while the delete has removed, and not committed, a row of the same pair.
\* fkey: whether the assignee table's ticket_id carries a foreign key to the tickets;
\* with one, a row for a ticket that is gone raises.
CInsert(fkey) ==
  LET c == txs.c
      uid == c.uids[c.k]
      conflict == uid \in AssigneesOf(ViewC(assignees, c), c.id)
      after == IF c.k = Len(c.uids) THEN "commit" ELSE "insert"
  IN
  /\ c.pc = "insert"
  /\ ~(txs.d.id = c.id /\ uid \in txs.d.saw)
  /\ IF conflict
     THEN /\ fkey = FALSE
          /\ txs' = [txs EXCEPT !.c.pc = after, !.c.k = c.k + 1]
          /\ last' = Last("insert", c.id, 0, c.res, c.uids, 0, "ok", Was(tickets, c.id))
     ELSE IF fkey /\ ~TicketExists(tickets, c.id)
     THEN /\ txs' = [txs EXCEPT !.c = IdleC]
          /\ last' = Last("complete", c.id, 0, c.res, c.uids, 2 + c.k, "error", "NONE")
     ELSE /\ TicketExists(tickets, c.id) => fkey = FALSE
          /\ txs' = [txs EXCEPT !.c.pc = after, !.c.k = c.k + 1,
                                !.c.ins = Append(c.ins, uid)]
          /\ last' = Last("insert", c.id, 0, c.res, c.uids, 0, "ok", Was(tickets, c.id))
  /\ UNCHANGED <<tickets, assignees, seq, now, roles, files>>

\* self.db.commit()
CCommit ==
  LET c == txs.c IN
  /\ c.pc = "commit"
  /\ tickets' = IF c.locked THEN UpdateClosed(tickets, c.id, c.res, c.t) ELSE tickets
  /\ assignees' = ViewC(assignees, c)
  /\ txs' = [txs EXCEPT !.c.pc = "detail", !.c.locked = FALSE, !.c.ins = <<>>]
  /\ last' = Last("commit", c.id, 0, c.res, c.uids, 0, "ok", Was(tickets, c.id))
  /\ UNCHANGED <<seq, now, roles, files>>

\* return self.get_detail(ticket_id): what the caller of complete gets
CDetail ==
  LET c == txs.c IN
  /\ c.pc = "detail"
  /\ txs' = [txs EXCEPT !.c = IdleC]
  /\ last' = IF TicketExists(tickets, c.id)
             THEN [Last("complete", c.id, 0, c.res, c.uids, 0, "ok", Was(tickets, c.id))
                     EXCEPT !.rows = <<Detail(tickets, assignees, c.id, TRUE, TRUE)>>]
             ELSE Last("complete", c.id, 0, c.res, c.uids, 0, "not_found", "NONE")
  /\ UNCHANGED <<tickets, assignees, seq, now, roles, files>>

\* delete_maintenance up to its try: _ensure_admin
DBegin(id, caller) ==
  /\ txs.d.pc = "idle"
  /\ IF ~EnsureAdmin(roles, caller)
     THEN /\ last' = Last("delete", id, caller, <<>>, <<>>, 0, "forbidden", Was(tickets, id))
          /\ UNCHANGED txs
     ELSE /\ txs' = [txs EXCEPT !.d = [IdleD EXCEPT !.pc = "del_assignees", !.id = id]]
          /\ last' = Last("begin", id, caller, <<>>, <<>>, 0, "ok", Was(tickets, id))
  /\ UNCHANGED <<tickets, assignees, seq, now, roles, files>>

\* DELETE FROM maintenance_ticket_assignees WHERE ticket_id = :id: the committed rows
DDeleteAssignees ==
  LET d == txs.d IN
  /\ d.pc = "del_assignees"
  /\ txs' = [txs EXCEPT !.d.pc = "del_ticket", !.d.saw = AssigneesOf(assignees, d.id)]
  /\ last' = Last("delete_assignees", d.id, 0, <<>>, <<>>, 0, "ok", Was(tickets, d.id))
  /\ UNCHANGED <<tickets, assignees, seq, now, roles, files>>

\* DELETE FROM maintenance_tickets WHERE id = :id.  It waits while the complete holds
\* the row.  fkey: as in CInsert; with a foreign key the DELETE raises when an
\* assignee row it has not deleted refers to the ticket, and the handler rolls back.
DDeleteTicket(fkey) ==
  LET d == txs.d
      left == AssigneesOf(assignees, d.id) \ d.saw
  IN
  /\ d.pc = "del_ticket"
  /\ ~(txs.c.locked /\ txs.c.id = d.id)
  /\ IF TicketExists(tickets, d.id) /\ left # {} /\ fkey
     THEN /\ txs' = [txs EXCEPT !.d = IdleD]
          /\ last' = Last("delete", d.id, 0, <<>>, <<>>, 3, "error", Was(tickets, d.id))
     ELSE /\ left = {} => fkey = FALSE
          /\ txs' = [txs EXCEPT !.d.pc = "commit",
                                !.d.delT = TicketExists(tickets, d.id),
                                !.d.rowcount = DeleteRowcount(tickets, d.id)]
          /\ last' = Last("delete_ticket", d.id, 0, <<>>, <<>>, 0, "ok", Was(tickets, d.id))
  /\ UNCHANGED <<tickets, assignees, seq, now, roles, files>>

\* db.commit() and the answer by rowcount
DCommit ==
  LET d == txs.d IN
  /\ d.pc = "commit"
  /\ tickets' = IF d.delT THEN DeleteTicket(tickets, d.id) ELSE tickets
  /\ assignees' = SelectSeq(assignees,
                            LAMBDA r : ~(r.ticket_id = d.id /\ r.user_id \in d.saw))
  /\ txs' = [txs EXCEPT !.d = IdleD]
  /\ last' = Last("delete", d.id, 0, <<>>, <<>>, 0,
                  IF d.rowcount = 0 THEN "not_found" ELSE "ok", Was(tickets, d.id))
  /\ UNCHANGED <<seq, now, roles, files>>

\* The complete waits for the delete (an INSERT of a pair the delete removed) and the
\* delete for the complete (the ticket's row lock): the database ends one of them
\* with an error, and its handler rolls back.
Deadlock(victim) ==
  LET c == txs.c
      d == txs.d
  IN
  /\ c.pc = "insert" /\ d.pc = "del_ticket" /\ c.id = d.id
  /\ c.locked /\ c.uids[c.k] \in d.saw
  /\ IF victim = "complete"
     THEN /\ txs' = [txs EXCEPT !.c = IdleC]
          /\ last' = Last("complete", c.id, 0, c.res, c.uids, 2 + c.k, "error", Was(tickets, c.id))
     ELSE /\ txs' = [txs EXCEPT !.d = IdleD]
          /\ last' = Last("delete", d.id, 0, <<>>, <<>>, 3, "error", Was(tickets, d.id))
  /\ UNCHANGED <<tickets, assignees, seq, now, roles, files>>

\* -------------------------------------------------------------- environment
\* now() moves on.
Tick ==
  /\ now < MaxClock
  /\ now' = now + 1
  /\ last' = Last("tick", 0, 0, <<>>, <<>>, 0, "ok", "NONE")
  /\ UNCHANGED <<tickets, assignees, seq, roles, files, txs>>

\* A user's role is changed (by the user administration, outside this module).
SetRole(u, r) ==
  /\ roles[u] # r
  /\ roles' = [roles EXCEPT ![u] = r]
  /\ last' = Last("set_role", 0, u, <<>>, <<>>, 0, "ok", "NONE")
  /\ UNCHANGED <<tickets, assignees, seq, now, files, txs>>

\* ----------------------------------------------------------- specifications
InitRoles == [u \in Users |-> IF u = 1 THEN "ADMIN" ELSE "USER"]

Init ==
  /\ tickets = <<>>
  /\ assignees = <<>>
  /\ seq = 0
  /\ now = 0
  /\ roles = InitRoles
  /\ files = {}
  /\ txs = IdleTxs
  /\ last = Last("init", 0, 0, <<>>, <<>>, 0, "ok", "NONE")

ValidPayload == [title |-> Str(2), requester_org |-> Str(5), request_content |-> Str(6)]

\* The ticket lifecycle within one instant of the clock, every call of every handler
\* liable to raise.
Next ==
  \/ \E p \in CreatePayloads, failAt \in 0..2, drew \in BOOLEAN :
       Create(1, p, failAt, drew)
  \/ \E id \in TicketIds, raw \in Resolutions, uids \in AssigneeLists,
        failAt \in 0..(MaxAssignees + 3) :
       Complete(id, raw, uids, failAt)
  \/ \E id \in TicketIds, caller \in Users, failAt \in 0..4 : Delete(id, caller, failAt)

Spec == Init /\ [][Next]_vars

\* The lifecycle with uploads, over the clock.
NextAttach ==
  \/ Create(1, ValidPayload, 0, FALSE)
  \/ \E id \in TicketIds, raw \in {Str(3), Str(4)}, failAt \in {0, 3, 4} :
       Complete(id, raw, <<1>>, failAt)
  \/ \E id \in TicketIds : Delete(id, 1, 0)
  \/ \E id \in TicketIds, f \in FileNames, size \in FileSizes, failAt \in 0..2 :
       Upload(id, f, size, failAt)
  \/ Tick

SpecAttach == Init /\ [][NextAttach]_vars

\* Deletion under changing roles.
NextAuth ==
  \/ Create(1, ValidPayload, 0, FALSE)
  \/ \E id \in TicketIds, uids \in FewLists : Complete(id, Str(4), uids, 0)
  \/ \E id \in TicketIds, caller \in Callers, failAt \in 0..4 : Delete(id, caller, failAt)
  \/ \E u \in Users, r \in RoleCodes : SetRole(u, r)

SpecAuth == Init /\ [][NextAuth]_vars

\* Ticket numbers, the sequence starting low or just under a seventh digit.
\* The third start: the ticket whose id is the first six digits of the ids to come
\* is still in the table.
InitSeq ==
  /\ \/ tickets = <<>> /\ seq \in {0, BigSeqStart}
     \/ /\ seq = BigSeqStart + 1
        /\ tickets = ((seq + 1) \div 10) :> NewTicket((seq + 1) \div 10, 0, ValidPayload, 1)
  /\ assignees = <<>>
  /\ now = 0
  /\ roles = InitRoles
  /\ files = {}
  /\ txs = IdleTxs
  /\ last = Last("init", 0, 0, <<>>, <<>>, 0, "ok", "NONE")

NextSeq ==
  \/ \E p \in CreatePayloads, failAt \in 0..2, drew \in BOOLEAN :
       Create(1, p, failAt, drew)
  \/ \E id \in TicketIds, uids \in FewLists : Complete(id, Str(4), uids, 0)
  \/ \E id \in TicketIds : Upload(id, <<"f", ".", "j", "p", "g">>, MaxBytes, 0)
  \/ \E id \in TicketIds : Delete(id, 1, 0)
  \/ Tick

SpecSeq == InitSeq /\ [][NextSeq]_vars

\* A complete and a delete interleaved statement by statement, after any number of
\* earlier ones.
NextRace ==
  \/ Create(1, ValidPayload, 0, FALSE)
  \/ \E id \in TicketIds, raw \in {Str(1), Str(4)}, uids \in FewLists : CBegin(id, raw, uids)
  \/ CSelect
  \/ CUpdate
  \/ \E fkey \in BOOLEAN : CInsert(fkey)
  \/ CCommit
  \/ CDetail
  \/ \E id \in TicketIds, caller \in Users : DBegin(id, caller)
  \/ DDeleteAssignees
  \/ \E fkey \in BOOLEAN : DDeleteTicket(fkey)
  \/ DCommit
  \/ \E victim \in {"complete", "delete"} : Deadlock(victim)

SpecRace == Init /\ [][NextRace]_vars

\* Downloads.  The table may hold a ticket written before (by an earlier version of
\* the upload, or by hand) whose attachment_path is any text; the disk may hold files
\* inside and outside the upload root.
PwName == <<"p", "w">>
DotDot == <<".", ".">>
JpgName == <<"f", ".", "j", "p", "g">>
\* what an upload to ticket 1 stores
UploadedPath == StoredPath(1, "u", SafeName(JpgName))
OutsideFile == EtcDir \o <<PwName>>
\* a regular file beside the upload root whose name starts with the root's name
SiblingFile == AppRoot \o <<UploadsName \o <<"2">>>>
DiskFiles == {Resolve(UploadedPath), OutsideFile, SiblingFile}
PersistedPaths ==
  {<<>>,
   UploadedPath,
   Tail(PathStr(<<UploadsName, MaintenanceName, IntStr(1), <<"u", "_">> \o JpgName>>)),
   PathStr(OutsideFile),
   PathStr(SiblingFile),
   PathStr(AppRoot \o <<UploadsName, DotDot, DotDot>> \o OutsideFile),
   PathStr(LinkPath \o <<PwName>>),
   PathStr(AppRoot \o <<UploadsName, MaintenanceName>>),
   PathStr(AppRoot \o <<UploadsName, <<".">>, MaintenanceName, IntStr(2), <<"g", "o", "n", "e">>>>)}

InitDownload ==
  /\ \/ tickets = <<>> /\ seq = 0
     \/ /\ seq = 1
        /\ \E path \in PersistedPaths :
             tickets = 1 :> [NewTicket(1, 0, ValidPayload, 1)
                               EXCEPT !.attachment =
                                        Some([name |-> JpgName, path |-> path, size |-> 1])]
  /\ assignees = <<>>
  /\ now = 0
  /\ roles = InitRoles
  /\ files \in SUBSET DiskFiles
  /\ txs = IdleTxs
  /\ last = Last("init", 0, 0, <<>>, <<>>, 0, "ok", "NONE")

NextDownload ==
  \/ Create(1, ValidPayload, 0, FALSE)
  \/ \E id \in TicketIds, f \in {JpgName, <<"x", ".", "s", "h">>}, failAt \in 0..2 :
       Upload(id, f, MaxBytes, failAt)
  \/ \E id \in TicketIds, failAt \in 0..1 : Download(id, failAt)
  \/ \E id \in TicketIds : Delete(id, 1, 0)

SpecDownload == InitDownload /\ [][NextDownload]_vars

\* The reads over tickets of two creators within one instant of the clock, every
\* query liable to raise.
NextRead ==
  \/ \E caller \in Users : Create(caller, ValidPayload, 0, FALSE)
  \/ \E id \in TicketIds, uids \in FewLists : Complete(id, Str(4), uids, 0)
  \/ \E year \in {BaseYear, BaseYear + 1}, tab \in {"in_progress", "completed"},
        q \in Searches, raises \in 0..2 :
       List(year, tab, q, raises)
  \/ \E id \in TicketIds, raisesT \in 0..2, raisesA \in 0..2 : GetDetail(id, raisesT, raisesA)

SpecRead == Init /\ [][NextRead]_vars

\* ------------------------------------------------------------------- claims
Blank(s) == \A i \in 1..Len(s) : s[i] = " "

\* t is s without the blanks s begins and ends with
Trimmed(t, s) ==
  /\ t # <<>> /\ t[1] # " " /\ t[Len(t)] # " "
  /\ \E k \in 0..(Len(s) - Len(t)) :
       /\ SubSeq(s, k + 1, k + Len(t)) = t
       /\ Blank(SubSeq(s, 1, k))
       /\ Blank(SubSeq(s, k + Len(t) + 1, Len(s)))

\* C1: complete is all-or-nothing.  A complete request either reports success and
\* leaves its ticket CLOSED with every requested assignee associated, or it leaves
\* both tables exactly as they were: a call that raises (the SELECT, the UPDATE, any
\* INSERT, the commit) rolls back every write of the request.
C1_CompleteAllOrNothing ==
  [][last'.op = "complete" =>
       \/ /\ last'.result = "ok"
          /\ last'.id \in DOMAIN tickets'
          /\ tickets'[last'.id].status = "CLOSED"
          /\ Range(last'.uids) \subseteq AssigneesOf(assignees', last'.id)
       \/ /\ last'.result # "ok"
          /\ UNCHANGED <<tickets, assignees>>]_vars

\* C1's case: an INSERT or the commit raised after the UPDATE and at least one INSERT
\* had run, and the ticket is still OPEN without assignees.
C1_Witness ==
  /\ last.op = "complete" /\ last.result = "error" /\ last.failAt >= 4
  /\ last.id \in DOMAIN tickets
  /\ tickets[last.id].status = "OPEN"
  /\ AssigneesOf(assignees, last.id) = {}

\* C2: closed_at is set exactly on the CLOSED tickets, in every committed state
\* that creates, uploads, completions and deletions lead to.
C2_ClosedAtIffClosed ==
  \A id \in DOMAIN tickets :
    (tickets[id].closed_at # None) <=> (tickets[id].status = "CLOSED")

\* C2's case: an upload has just stored its metadata on a CLOSED ticket, beside a
\* ticket that is OPEN.
C2_Witness ==
  /\ last.op = "upload" /\ last.result = "ok" /\ last.failAt = 0
  /\ last.id \in DOMAIN tickets
  /\ tickets[last.id].status = "CLOSED"
  /\ tickets[last.id].attachment # None
  /\ \E j \in DOMAIN tickets : tickets[j].status = "OPEN" /\ tickets[j].closed_at = None

\* C3 as stated: once a ticket is CLOSED, no later step changes its closed_at or
\* its resolution text.
C3_CompletionAppliedOnce ==
  [][\A id \in DOMAIN tickets \cap DOMAIN tickets' :
       tickets[id].status = "CLOSED" =>
         /\ tickets'[id].closed_at = tickets[id].closed_at
         /\ tickets'[id].resolution_content = tickets[id].resolution_content]_vars

\* C3 as amended: a CLOSED ticket stays CLOSED for as long as it exists, and every
\* successful complete, also one on a ticket that is CLOSED already, stores its own
\* trimmed resolution text and the current time as closed_at (the last writer wins).
C3_ClosedStaysClosedLastWriterWins ==
  [][/\ \A id \in DOMAIN tickets \cap DOMAIN tickets' :
          tickets[id].status = "CLOSED" => tickets'[id].status = "CLOSED"
     /\ last'.op = "complete" /\ last'.result = "ok" =>
          /\ tickets'[last'.id].status = "CLOSED"
          /\ tickets'[last'.id].closed_at = Some(now)
          /\ tickets'[last'.id].resolution_content # None
          /\ Trimmed(tickets'[last'.id].resolution_content[1], last'.text)]_vars

\* C3's case: a complete has succeeded on a ticket that was CLOSED before, at a later
\* instant than the ticket was requested at.
C3_Witness ==
  /\ last.op = "complete" /\ last.result = "ok" /\ last.was = "CLOSED"
  /\ tickets[last.id].closed_at = Some(now)
  /\ now > tickets[last.id].requested_at

NoDuplicatePairs(asg) ==
  \A i, j \in 1..Len(asg) :
    asg[i].ticket_id = asg[j].ticket_id /\ asg[i].user_id = asg[j].user_id => i = j

\* C4: no two assignee rows carry the same (ticket, user) pair.  A complete whose
\* calls do not raise succeeds on a ticket of any status, whatever the overlap of its
\* list with the ticket's assignees or with itself, and leaves as the ticket's
\* assignees the union of the old ones and the supplied ids, one row each.
C4_AssigneePairsUnique ==
  [][/\ NoDuplicatePairs(assignees')
     /\ last'.op = "complete" /\ last'.id \in DOMAIN tickets /\ last'.failAt = 0
        /\ ~Blank(last'.text) /\ last'.uids # <<>> =>
          /\ last'.result = "ok"
          /\ AssigneesOf(assignees', last'.id) =
               AssigneesOf(assignees, last'.id) \cup Range(last'.uids)
          /\ Len(assignees') =
               Len(assignees) +
               Cardinality(Range(last'.uids) \ AssigneesOf(assignees, last'.id))]_vars

\* C4's case: a second complete of a ticket, its list naming one user twice, that
\* user an assignee already.
C4_Witness ==
  /\ last.op = "complete" /\ last.result = "ok" /\ last.was = "CLOSED"
  /\ last.uids = <<2, 2>>
  /\ Len(SelectSeq(assignees, LAMBDA r : r.ticket_id = last.id)) = 2
  /\ AssigneesOf(assignees, last.id) = {1, 2}

\* C5: complete with text that is not blank and at least one assignee, on an id
\* without a ticket row, writes nothing, and returns not-found when its SELECT does
\* not raise.
C5_CompleteMissingTicket ==
  [][last'.op = "complete" /\ last'.id \notin DOMAIN tickets
     /\ ~Blank(last'.text) /\ last'.uids # <<>> =>
       /\ UNCHANGED <<tickets, assignees>>
       /\ last'.failAt = 0 => last'.result = "not_found"]_vars

\* C5's case: not-found for an id without a row, while other rows exist.
C5_Witness ==
  /\ last.op = "complete" /\ last.result = "not_found"
  /\ last.id \notin DOMAIN tickets
  /\ tickets # <<>> /\ assignees # <<>>

\* C6: complete with blank resolution text or without assignees is a validation
\* error and changes neither table, whether or not the ticket exists.
C6_CompleteValidation ==
  [][last'.op = "complete" /\ (Blank(last'.text) \/ last'.uids = <<>>) =>
       /\ last'.result = "validation_error"
       /\ UNCHANGED <<tickets, assignees>>]_vars

\* C6's case: text given, no assignees, on an OPEN ticket.
C6_Witness ==
  /\ last.op = "complete" /\ last.result = "validation_error"
  /\ ~Blank(last.text) /\ last.uids = <<>>
  /\ last.was = "OPEN" /\ tickets[last.id].status = "OPEN"

C8_DeleteAdminOnly ==
  [][last'.op = "delete" =>
       LET admin == last'.caller \in DOMAIN roles /\ roles[last'.caller] = "ADMIN"
       IN
       /\ ~admin => UNCHANGED <<tickets, assignees>>
       /\ ~admin /\ last'.failAt = 0 => last'.result = "forbidden"
       /\ admin => last'.result # "forbidden"]_vars

\* C8's case: user 1, an ADMIN at first, has had the role changed and is now forbidden
\* to delete a ticket that exists, after an earlier delete went through.
C8_Witness ==
  /\ last.op = "delete" /\ last.result = "forbidden" /\ last.caller = 1
  /\ roles[1] = "admin"
  /\ last.id \in DOMAIN tickets
  /\ 1 \notin DOMAIN tickets /\ seq = 2

\* zero-padding to w digits, as the claim has it: a longer number is left whole
ZeroPad(d, w) == IF Len(d) >= w THEN d ELSE Zeros(w - Len(d)) \o d

\* C9 as stated: every ticket's ticket_no is its creation year and its id
\* zero-padded to six digits, whatever has happened to the ticket since, and no two
\* tickets carry the same ticket_no.
C9_TicketNoPaddedUnique ==
  /\ \A id \in DOMAIN tickets :
       tickets[id].ticket_no =
         [year |-> YearKST(tickets[id].requested_at),
          digits |-> ZeroPad(Digits(id), PadWidth)]
  /\ \A i, j \in DOMAIN tickets :
       i # j => tickets[i].ticket_no # tickets[j].ticket_no

BlankNames(rows) == [k \in 1..Len(rows) |-> [rows[k] EXCEPT !.created_by_name = <<>>]]

BlankAssignees(rows) == [k \in 1..Len(rows) |-> [rows[k] EXCEPT !.name = <<>>]]

\* what get_detail returns when raisesT of its ticket queries and raisesA of its
\* assignee queries raised: the joined detail, the names of a failed join empty
DetailExpected(id, raisesT, raisesA) ==
  LET d == Detail(tickets, assignees, id, TRUE, TRUE)
  IN [d EXCEPT !.created_by_name = IF raisesT = 0 THEN @ ELSE <<>>,
               !.assignees = IF raisesA = 0 THEN @ ELSE BlankAssignees(@)]

C10_Surfacing ==
  /\ last.op = "list" => ((last.result = "error") <=> (last.failAt = 2))
  /\ last.op = "detail" =>
       /\ (last.result = "error") <=>
            (last.failAt = 2 \/ (last.id \in DOMAIN tickets /\ last.uids[1] = 2))
       /\ (last.result = "not_found") <=>
            (last.failAt < 2 /\ last.id \notin DOMAIN tickets)
       /\ last.result = "ok" =>
            last.rows = <<DetailExpected(last.id, last.failAt, last.uids[1])>>

\* C10 as stated: a read whose joined query raised returns what the joined query
\* returns, the creator names empty, and fails only when the fallback raises too.
C10_FallbackSameTickets ==
  /\ C10_Surfacing
  /\ last.op = "list" /\ last.failAt = 1 =>
       last.rows =
         BlankNames(ListQuery(tickets, last.id, last.tab, NormalizeQ(last.text), TRUE))

\* C10 as amended: a read whose joined query raised fails only when the fallback
\* raises too; detail returns the same ticket and assignees, the names of the failed
\* join empty; list returns, the creator names empty, the tickets the joined query
\* returns but for those the search text matches in the creator's name alone.
C10_FallbackWithoutNameSearch ==
  /\ C10_Surfacing
  /\ last.op = "list" /\ last.failAt = 0 =>
       last.rows = ListQuery(tickets, last.id, last.tab, NormalizeQ(last.text), TRUE)
  /\ last.op = "list" /\ last.failAt = 1 =>
       LET qn == NormalizeQ(last.text)
           byTicket(r) ==
             qn = None \/ ILike(r.title, qn[1]) \/ ILike(r.requester_org, qn[1])
       IN last.rows =
            BlankNames(SelectSeq(ListQuery(tickets, last.id, last.tab, qn, TRUE), byTicket))

\* C10's case: the joined list query raised and the fallback returned two tickets
\* that the search text matches by title.
C10_Witness ==
  /\ last.op = "list" /\ last.failAt = 1 /\ last.result = "ok"
  /\ last.text = Some(<<"A", "N">>)
  /\ Len(last.rows) = 2
  /\ \A k \in 1..2 : last.rows[k].created_by_name = <<>>

\* The upload root's subtree, by the components' names.
InsideRoot(p) == Len(p) >= 2 /\ p[1] = <<"s", "r", "v">> /\ p[2] = UploadsName

\* C11: a download answers with a file only if the ticket's persisted path, resolved,
\* lies inside the upload root and is a regular file on the disk, and that resolved
\* path is the one it serves; a persisted path that resolves outside the root is
\* rejected as an invalid path, whether or not a file is there.
C11_DownloadInsideRootOnly ==
  last.op = "download" =>
    LET has == /\ last.id \in DOMAIN tickets
               /\ tickets[last.id].attachment # None
               /\ tickets[last.id].attachment[1].path # <<>>
        real == Resolve(tickets[last.id].attachment[1].path)
    IN /\ last.result = "ok" =>
            /\ has
            /\ last.rows = <<real>>
            /\ InsideRoot(real)
            /\ real \in files
       /\ (has /\ last.failAt = 0 /\ ~InsideRoot(real)) => last.result = "bad_path"

\* C11's case: a persisted path that starts with the upload root's text and resolves
\* to a file that exists outside the root is rejected.
C11_Witness ==
  /\ last.op = "download"
  /\ last.result = "bad_path"
  /\ last.id \in DOMAIN tickets
  /\ LET raw == tickets[last.id].attachment[1].path
     IN /\ Len(raw) > Len(PathStr(UploadsRoot))
        /\ SubSeq(raw, 1, Len(PathStr(UploadsRoot))) = PathStr(UploadsRoot)
        /\ Resolve(raw) \in files

\* C12: however a complete and a delete of the same ticket interleave, no committed
\* assignee row refers to a ticket that has no row, and a complete that answers with
\* success answers with the ticket its final read found.
C12_NoOrphanAssignees ==
  /\ \A i \in 1..Len(assignees) : assignees[i].ticket_id \in DOMAIN tickets
  /\ (last.op = "complete" /\ last.result = "ok") =>
       (Len(last.rows) = 1 /\ last.rows[1].id = last.id)

====
